---------------------------- MODULE Spec2Model ----------------------------
(***************************************************************************)
(* TeaLearning tutorial (TeaLearning.ipynb): the Tea layer (binary         *)
(* connections, integer leak, spiking neurons), the AdditivePooling layer  *)
(* and the export of a trained network to the TrueNorth simulator.         *)
(*                                                                         *)
(* Numbers.  A float32 tensor element that has not been rounded (a stored  *)
(* connection, a stored bias, an input, a layer output) is an integer      *)
(* counting units of 2^-24, so 1.0 is One and 0.5 is Half.  Values that    *)
(* the code has rounded (tf.round, np.round), the +1/-1 weights and the    *)
(* neuron potentials are plain integers.  Tensors keep the 0-based indices *)
(* of the source: a matrix is a function [0..a-1 -> [0..b-1 -> Int]].      *)
(***************************************************************************)
EXTENDS Integers, Sequences, FiniteSets, TLC

(* ------------------------------ bounds --------------------------------- *)
\* Largest number of axons (input_shape[-1]) of a Tea layer.
MaxInputs == 2
\* Largest number of neurons (units) of a Tea layer.
MaxUnits == 2
\* Number of optimizer updates of one training run.
MaxSteps == 2
\* Largest shape (num_axons, num_neurons) given to tea_weight_initializer.
MaxAxons == 12
MaxNeurons == 9
\* AdditivePooling: largest num_classes, neurons per class, batch and ticks.
MaxClasses == 2
MaxPerClass == 2
MaxBatch == 2
MaxTicks == 2

(* --------------------------- float32 values ---------------------------- *)
\* Bits of a float32 significand: the spacing of float32 in [0.5, 1) is 2^-24.
Mantissa == 24
One == 2 ^ Mantissa
Half == One \div 2
\* exp(x) overflows float32 to +inf from x = 89 on, so 1/(1+exp(x)) is 0.
ExpOverflow == 89
\* The batch dimension of a Keras input shape (None).
None == -1

Max(a, b) == IF a >= b THEN a ELSE b
Min(a, b) == IF a <= b THEN a ELSE b

\* A mutant of Round: ties round up (round half up instead of half to even).
RoundHalfUp(v) == (v + Half) \div One

\* tf.round / np.round: round to the nearest integer, ties to the even one.
Round(v) ==
    LET q == v \div One
        r == v % One
    IN  IF 2 * r < One THEN q
        ELSE IF 2 * r > One THEN q + 1
        ELSE IF q % 2 = 0 THEN q ELSE q + 1

\* A mutant of Clip: the upper bound is not applied.
ClipLowOnly(v, lo, hi) == Max(v, lo)

\* K.clip / np.clip on one element.
Clip(v, lo, hi) == Min(Max(v, lo), hi)

\* float32 value of sigmoid(p) for p = 0 .. 18, in units of 2^-24.
SigmoidTable ==
    << 8388608, 12265128, 14777323, 15981542, 16475457, 16664929, 16735732,
       16761931, 16771590, 16775146, 16776454, 16776936, 16777113, 16777178,
       16777202, 16777211, 16777214, 16777215, 16777216 >>

\* A mutant of Sigmoid: the inference branch's comparison in its place.
SigmoidAsStep(p) == IF p >= 0 THEN One ELSE 0

\* K.sigmoid on an integral potential p, as float32 computes 1/(1+exp(-p)).
\* A positive result below one unit stays positive (float32 is finer there).
Sigmoid(p) ==
    IF p >= 0
    THEN IF p < Len(SigmoidTable) THEN SigmoidTable[p + 1] ELSE One
    ELSE IF -p >= ExpOverflow THEN 0
         ELSE IF -p < Len(SigmoidTable)
              THEN Max(1, One - SigmoidTable[(-p) + 1])
              ELSE 1

\* A mutant of Spike: strict comparison (tf.greater).
SpikeStrict(p) == IF p > 0 THEN One ELSE 0

\* tf.cast(tf.greater_equal(output, 0.0), tf.float32)
Spike(p) == IF p >= 0 THEN One ELSE 0

(* ------------------------- tea_weight_initializer ---------------------- *)
\* np.zeros((num_axons, num_neurons))
Zeros(a, b) == [i \in 0 .. a - 1 |-> [j \in 0 .. b - 1 |-> 0]]

\* A mutant of FillAxon: the sign follows the neuron (column) index.
FillAxonByColumn(ret_array, axon_num) ==
    [ret_array EXCEPT ![axon_num] =
        [i \in DOMAIN ret_array[axon_num] |-> IF i % 2 = 0 THEN 1 ELSE -1]]

\* One pass of the loop body: every entry of row axon_num is set to 1 or -1.
FillAxon(ret_array, axon_num) ==
    [ret_array EXCEPT ![axon_num] =
        [i \in DOMAIN ret_array[axon_num] |->
            IF axon_num % 2 = 0 THEN 1 ELSE -1]]

RECURSIVE FillFrom(_, _)
\* for axon_num, axon in enumerate(ret_array), from row axon_num on.
FillFrom(ret_array, axon_num) ==
    IF axon_num \notin DOMAIN ret_array THEN ret_array
    ELSE FillFrom(FillAxon(ret_array, axon_num), axon_num + 1)

tea_weight_initializer(shape) == FillFrom(Zeros(shape[1], shape[2]), 0)


(* ------------------------------- state --------------------------------- *)
VARIABLES
    layer,      \* the Tea layer of the model: units, built and its variables
    call,       \* the Tea Forward being returned: its phase, input,
                \* constrained connections, potentials and output; or NoCall
    steps,      \* optimizer updates applied so far by model.fit
    exported,   \* connections, biases, weights handed to create_cores, or
                \* NotExported
    pool,       \* the AdditivePooling layer: num_classes, num_inputs, and
                \* the input shape Keras built it for
    pool_call,  \* the AdditivePooling Forward being returned, or NoCall
    init_call,  \* the tea_weight_initializer call being returned, or NoCall
    shape_call, \* the constructor, build or compute_output_shape call being
                \* returned: its arguments and its result or raised; or NoCall
    sim         \* the test image under conversion, the packets created for
                \* it and the first-layer axons that see a spike; or NoSim

vars == << layer, call, steps, exported, pool, pool_call, init_call,
           shape_call, sim >>

NoCall == [made |-> FALSE]
NotExported == [made |-> FALSE]
NoSim == [made |-> FALSE]

(* ------------------------------ Tea layer ------------------------------ *)
\* Tea.__init__: units recorded, no variables yet.
TeaNew(units) ==
    [units |-> units, built |-> FALSE,
     static_weights |-> << >>, connections |-> << >>, biases |-> << >>]

\* One sample of initializers.TruncatedNormal(mean=0.5) (stddev 0.05) for
\* the entry (i, j): 9/16 and 7/16 alternate, so both sides of 0.5 occur.
TruncatedNormal(i, j) ==
    IF (i + j) % 2 = 0 THEN 9 * (One \div 16) ELSE 7 * (One \div 16)

\* Values an optimizer update may leave in a connection: -0.75, 0.5, 2.5.
ConnVals == {0 - 3 * (One \div 4), Half, 5 * Half}

\* Values an optimizer update may leave in a bias: -89.0, -0.5, 18.0.
BiasVals == {0 - ExpOverflow * One, 0 - Half, 18 * One}

\* Values of one input element: 0.0, 0.5, 1.0.
XVals == {0, Half, One}

\* Tea.build: the three add_weight calls.
build(self, input_shape) ==
    LET shape == << input_shape[Len(input_shape)], self.units >>
    IN  [self EXCEPT
            !.built = TRUE,
            !.static_weights = tea_weight_initializer(shape),
            !.connections = [i \in 0 .. shape[1] - 1 |->
                                [j \in 0 .. shape[2] - 1 |->
                                    TruncatedNormal(i, j)]],
            !.biases = [j \in 0 .. self.units - 1 |-> 0]]

\* connections = K.clip(tf.round(connections), 0, 1)
ConstrainConnections(connections) ==
    [i \in DOMAIN connections |->
        [j \in DOMAIN connections[i] |-> Clip(Round(connections[i][j]), 0, 1)]]

\* A mutant of ConstrainBiases: tf.floor in place of tf.round.
ConstrainBiasesFloor(biases) == [j \in DOMAIN biases |-> biases[j] \div One]

\* biases = tf.round(self.biases)
ConstrainBiases(biases) == [j \in DOMAIN biases |-> Round(biases[j])]

RECURSIVE DotFrom(_, _, _, _)
\* The contraction of K.dot for output column j, from axon i on.
DotFrom(x, w, j, i) ==
    IF i \notin DOMAIN x THEN 0
    ELSE x[i] * w[i][j] + DotFrom(x, w, j, i + 1)

\* A mutant of Dot: every connected axon excites (the sign of the weight is
\* dropped).
DotUnsigned(x, w, units) ==
    [j \in 0 .. units - 1 |->
        DotFrom(x, [i \in DOMAIN w |->
                       [k \in DOMAIN w[i] |-> w[i][k] * w[i][k]]], j, 0)]

\* K.dot(x, weighted_connections) for one sample x.
Dot(x, w, units) == [j \in 0 .. units - 1 |-> DotFrom(x, w, j, 0)]

\* A mutant of in_train_phase: the two branches exchanged.
in_test_phase(training, a, b) == IF training THEN b ELSE a

\* K.in_train_phase(a, b)
in_train_phase(training, a, b) == IF training THEN a ELSE b

\* Tea.call on one sample x (shape (1, num_axons)) in the given phase.
TeaCall(self, x, training) ==
    LET xr == [i \in DOMAIN x |-> Round(x[i])]
        connections == ConstrainConnections(self.connections)
        weighted_connections ==
            [i \in DOMAIN connections |->
                [j \in DOMAIN connections[i] |->
                    connections[i][j] * self.static_weights[i][j]]]
        dot == Dot(xr, weighted_connections, self.units)
        biases == ConstrainBiases(self.biases)
        output == [j \in DOMAIN dot |-> dot[j] + biases[j]]
    IN  [connections |-> connections,
         potential |-> output,
         output |-> in_train_phase(training,
                        [j \in DOMAIN output |-> Sigmoid(output[j])],
                        [j \in DOMAIN output |-> Spike(output[j])])]

\* x = tf.round(x) of the Tea layer that is fed this layer's output (the
\* concatenation in between keeps every element).
NextLayerInput(output) == [j \in DOMAIN output |-> Round(output[j])]

(* ------------------------------- export -------------------------------- *)
\* layer.weights: the trainable variables, then the non-trainable ones.
LayerWeights(self) == << self.connections, self.biases, self.static_weights >>

\* model.get_weights() of a model whose only layer with variables is self.
get_weights(self) == LayerWeights(self)

\* all_weights[n] with the source's 0-based index.
At(all_weights, n) == all_weights[n + 1]

\* A mutant of NpRound: astype(int) alone, which drops the fraction.
NpTruncate(v) == IF v >= 0 THEN v \div One ELSE 0 - ((0 - v) \div One)

\* np.round on one element: ties to the even integer.
NpRound(v) ==
    LET q == v \div One
        r == v % One
    IN  IF 2 * r < One THEN q
        ELSE IF 2 * r > One THEN q + 1
        ELSE q + (q % 2)

\* np.clip(np.round(w), 0, 1).astype(int)
ExportConnections(w) ==
    [i \in DOMAIN w |-> [j \in DOMAIN w[i] |-> Clip(NpRound(w[i][j]), 0, 1)]]

\* np.round(w).astype(int)
ExportBiases(w) == [j \in DOMAIN w |-> NpRound(w[j])]

\* The export cell for the first Tea layer: what create_cores receives.
ExportOf(self) ==
    LET all_weights == get_weights(self)
    IN  [made |-> TRUE,
         connections |-> ExportConnections(At(all_weights, 0)),
         biases |-> ExportBiases(At(all_weights, 1)),
         weights |-> At(all_weights, 2)]

(* ------------------------------ actions -------------------------------- *)
\* The first use of the layer builds it for an input of shape (None, n).
Build ==
    /\ ~layer.built
    /\ \E n \in 1 .. MaxInputs :
          LET input_shape == << None, n >>
          IN  /\ Len(input_shape) >= 2
              /\ layer' = build(layer, input_shape)
    /\ UNCHANGED << call, steps, exported, pool, pool_call, init_call,
                    shape_call, sim >>

\* One update of model.fit: the optimizer moves a connection.
StepConnection ==
    /\ layer.built
    /\ call = NoCall
    /\ exported = NotExported
    /\ steps < MaxSteps
    /\ \E i \in DOMAIN layer.connections, j \in 0 .. layer.units - 1,
          v \in ConnVals :
          layer' = [layer EXCEPT !.connections[i][j] = v]
    /\ steps' = steps + 1
    /\ UNCHANGED << call, exported, pool, pool_call, init_call,
                    shape_call, sim >>

\* One update of model.fit: the optimizer moves a bias.
StepBias ==
    /\ layer.built
    /\ call = NoCall
    /\ exported = NotExported
    /\ steps < MaxSteps
    /\ \E j \in 0 .. layer.units - 1, v \in BiasVals :
          layer' = [layer EXCEPT !.biases[j] = v]
    /\ steps' = steps + 1
    /\ UNCHANGED << call, exported, pool, pool_call, init_call,
                    shape_call, sim >>

\* A mutant of Forward: the constrained connections are assigned to the
\* layer's variable.
ForwardWritingBack ==
    /\ layer.built
    /\ call = NoCall
    /\ \E training \in BOOLEAN, x \in [DOMAIN layer.connections -> XVals] :
          call' = [made |-> TRUE, training |-> training, x |-> x]
                    @@ TeaCall(layer, x, training)
    /\ layer' = [layer EXCEPT !.connections =
                    [i \in DOMAIN layer.connections |->
                        [j \in DOMAIN layer.connections[i] |->
                            One * Clip(Round(layer.connections[i][j]), 0, 1)]]]
    /\ UNCHANGED << steps, exported, pool, pool_call, init_call,
                    shape_call, sim >>

\* Forward of the layer on one sample, in the training or the test phase.
Forward ==
    /\ layer.built
    /\ call = NoCall
    /\ \E training \in BOOLEAN, x \in [DOMAIN layer.connections -> XVals] :
          call' = [made |-> TRUE, training |-> training, x |-> x]
                    @@ TeaCall(layer, x, training)
    /\ UNCHANGED << layer, steps, exported, pool, pool_call, init_call,
                    shape_call, sim >>

\* The caller has consumed the returned tensor.
Return ==
    /\ call # NoCall
    /\ call' = NoCall
    /\ UNCHANGED << layer, steps, exported, pool, pool_call, init_call,
                    shape_call, sim >>

\* The export cell, run on the trained model.
Export ==
    /\ layer.built
    /\ call = NoCall
    /\ exported = NotExported
    /\ exported' = ExportOf(layer)
    /\ UNCHANGED << layer, call, steps, pool, pool_call, init_call,
                    shape_call, sim >>

NoPool == [num_classes |-> 0, num_inputs |-> None, input_shape |-> << >>]

Init ==
    /\ layer \in {TeaNew(u) : u \in 1 .. MaxUnits}
    /\ call = NoCall
    /\ steps = 0
    /\ exported = NotExported
    /\ pool = NoPool
    /\ pool_call = NoCall
    /\ init_call = NoCall
    /\ shape_call = NoCall
    /\ sim = NoSim

Next ==
    \/ Build
    \/ StepConnection
    \/ StepBias
    \/ Forward
    \/ Return
    \/ Export

Spec == Init /\ [][Next]_vars

(* ------------------- tea_weight_initializer on its own ----------------- *)
\* The notebook cell tf.Session().run(tea_weight_initializer(shape)).
InitializerCall ==
    /\ init_call = NoCall
    /\ \E a \in 1 .. MaxAxons, b \in 1 .. MaxNeurons :
          init_call' = [made |-> TRUE, shape |-> << a, b >>,
                        result |-> tea_weight_initializer(<< a, b >>)]
    /\ UNCHANGED << layer, call, steps, exported, pool, pool_call,
                    shape_call, sim >>

\* The caller has consumed the returned tensor.
InitializerReturn ==
    /\ init_call # NoCall
    /\ init_call' = NoCall
    /\ UNCHANGED << layer, call, steps, exported, pool, pool_call,
                    shape_call, sim >>

InitInitializer ==
    /\ layer = TeaNew(1)
    /\ call = NoCall
    /\ steps = 0
    /\ exported = NotExported
    /\ pool = NoPool
    /\ pool_call = NoCall
    /\ init_call = NoCall
    /\ shape_call = NoCall
    /\ sim = NoSim

NextInitializer ==
    \/ InitializerCall
    \/ InitializerReturn

SpecInitializer == InitInitializer /\ [][NextInitializer]_vars

(* --------------------------- AdditivePooling --------------------------- *)
\* A tensor is its shape and its elements in row-major order.
Tensor(shape, data) == [shape |-> shape, data |-> data]

RECURSIVE Prod(_)
\* The number of elements of a shape.
Prod(shape) == IF shape = << >> THEN 1 ELSE Head(shape) * Prod(Tail(shape))

RECURSIVE SumAlong(_, _, _, _)
\* data[first] + data[first + stride] + ... : count terms.
SumAlong(data, first, stride, count) ==
    IF count = 0 THEN 0
    ELSE data[first] + SumAlong(data, first + stride, stride, count - 1)

\* K.sum(t, axis) / tf.reduce_sum(t, axis): axis (0-based) is summed away.
SumAxis(t, axis) ==
    LET outer == Prod(SubSeq(t.shape, 1, axis))
        d == t.shape[axis + 1]
        inner == Prod(SubSeq(t.shape, axis + 2, Len(t.shape)))
    IN  Tensor(SubSeq(t.shape, 1, axis)
                   \o SubSeq(t.shape, axis + 2, Len(t.shape)),
               [k \in 1 .. outer * inner |->
                   SumAlong(t.data,
                            ((k - 1) \div inner) * d * inner
                                + ((k - 1) % inner) + 1,
                            inner, d)])

\* A mutant of SumTicks: the batch axis is summed instead of the tick axis.
SumBatch(x) == SumAxis(x, 0)

\* output = K.sum(x, axis=1)
SumTicks(x) == SumAxis(x, 1)

\* tf.reshape(t, [-1, a, b]): same elements, the first dimension inferred.
Reshape3(t, a, b) == Tensor(<< Len(t.data) \div (a * b), a, b >>, t.data)

\* A mutant of ReshapeByClass: classes taken as contiguous blocks of neurons.
ReshapeClassMajor(self, output) ==
    Reshape3(output, self.num_classes, self.num_inputs \div self.num_classes)

\* tf.reshape(output, [-1, int(num_inputs / num_classes), num_classes])
ReshapeByClass(self, output) ==
    Reshape3(output, self.num_inputs \div self.num_classes, self.num_classes)

\* output = tf.reduce_sum(output, 1)
SumNeurons(output) == SumAxis(output, 1)

\* AdditivePooling.__init__
PoolNew(num_classes) ==
    [num_classes |-> num_classes, num_inputs |-> None, input_shape |-> << >>]

\* AdditivePooling.call
PoolingCall(self, x) ==
    LET summed == IF Len(x.shape) >= 3 THEN SumTicks(x) ELSE x
    IN  SumNeurons(ReshapeByClass(self, summed))

\* The shapes (None, N) and (None, ticks, N) a model can feed a layer of
\* num_classes classes.
PoolShapes(num_classes) ==
    { << None, n >> : n \in 1 .. num_classes * MaxPerClass }
        \cup { << None, t, n >> : t \in 1 .. MaxTicks,
                                  n \in 1 .. num_classes * MaxPerClass }

\* An input of the given shape carrying two spikes: element e holds the
\* number of spikes placed on it (position 0 places none).
SpikeTensor(shape, first, second) ==
    Tensor(shape, [e \in 1 .. Prod(shape) |->
                      (IF first = e THEN 1 ELSE 0)
                          + (IF second = e THEN 1 ELSE 0)])

\* An input of the given shape with every element 1.
OnesTensor(shape) == Tensor(shape, [e \in 1 .. Prod(shape) |-> 1])

\* An input of the given shape whose elements are all different: 1, 2, ...
RampTensor(shape) == Tensor(shape, [e \in 1 .. Prod(shape) |-> e])

\* The inputs of the given shape that PoolForward draws from.
PoolInputs(shape) ==
    { SpikeTensor(shape, first, second) :
          first \in 0 .. Prod(shape), second \in 0 .. Prod(shape) }
        \cup { OnesTensor(shape), RampTensor(shape) }

\* AdditivePooling.build, called by Keras with the shape of the first input.
PoolBuild ==
    /\ pool.input_shape = << >>
    /\ \E input_shape \in PoolShapes(pool.num_classes) :
          /\ Len(input_shape) >= 2
          /\ input_shape[Len(input_shape)] % pool.num_classes = 0
          /\ pool' = [pool EXCEPT
                         !.num_inputs = input_shape[Len(input_shape)],
                         !.input_shape = input_shape]
    /\ UNCHANGED << layer, call, steps, exported, pool_call, init_call,
                    shape_call, sim >>

\* Forward of the built layer on a batch of the shape it was built for.
PoolForward ==
    /\ pool.input_shape # << >>
    /\ pool_call = NoCall
    /\ \E batch \in 1 .. MaxBatch :
          \E x \in PoolInputs(<< batch >> \o Tail(pool.input_shape)) :
              pool_call' = [made |-> TRUE, x |-> x,
                            output |-> PoolingCall(pool, x)]
    /\ UNCHANGED << layer, call, steps, exported, pool, init_call,
                    shape_call, sim >>

\* The caller has consumed the returned tensor.
PoolReturn ==
    /\ pool_call # NoCall
    /\ pool_call' = NoCall
    /\ UNCHANGED << layer, call, steps, exported, pool, init_call,
                    shape_call, sim >>

InitPool ==
    /\ layer = TeaNew(1)
    /\ call = NoCall
    /\ steps = 0
    /\ exported = NotExported
    /\ pool \in {PoolNew(c) : c \in 1 .. MaxClasses}
    /\ pool_call = NoCall
    /\ init_call = NoCall
    /\ shape_call = NoCall
    /\ sim = NoSim

NextPool ==
    \/ PoolBuild
    \/ PoolForward
    \/ PoolReturn

SpecPool == InitPool /\ [][NextPool]_vars

(* ---------------------- construction and shapes ------------------------ *)
\* Largest rank and largest defined dimension of an input shape, and largest
\* magnitude of a constructor's count argument.
MaxRank == 4
MaxDim == 2
MaxCount == 3

\* One element of a shape tuple: None (undefined) or a size, 0 included.
Dims == {None} \cup (0 .. MaxDim)

\* The shape tuples handed to build and compute_output_shape: () included.
ShapeArgs == UNION {[1 .. r -> Dims] : r \in 0 .. MaxRank}

\* The integers handed to a constructor as units or num_classes.
CountArgs == (0 - MaxCount) .. MaxCount

\* input_shape[-1]
Last(input_shape) == input_shape[Len(input_shape)]

\* bool(v) of a shape element: None and 0 are falsy.
Truthy(v) == v # None /\ v # 0

\* np.zeros((int(num_axons), int(num_neurons))) raises on int(None) and on a
\* negative dimension.
ZerosRaises(shape) == shape[1] < 0 \/ shape[2] < 0

\* A mutant of BuildRaises: the initializer accepts any shape.
BuildRaisesAssertOnly(self, input_shape) == ~(Len(input_shape) >= 2)

\* Tea.build raises: the assert, or the initializer of the first add_weight.
BuildRaises(self, input_shape) ==
    \/ ~(Len(input_shape) >= 2)
    \/ ZerosRaises(<< Last(input_shape), self.units >>)

\* Tea.compute_output_shape raises: one of its two asserts fails.
OutputShapeRaises(self, input_shape) ==
    \/ ~(input_shape # << >> /\ Len(input_shape) >= 2)
    \/ ~Truthy(Last(input_shape))

\* A mutant of compute_output_shape: the first element is replaced.
compute_output_shape_first(self, input_shape) ==
    [input_shape EXCEPT ![1] = self.units]

\* Tea.compute_output_shape past its asserts.
compute_output_shape(self, input_shape) ==
    [input_shape EXCEPT ![Len(input_shape)] = self.units]

\* The record of a finished call: what was called, with what, and whether it
\* raised (result is << >> then).
Called(fn, arg, raised, result) ==
    [made |-> TRUE, fn |-> fn, arg |-> arg, raised |-> raised,
     result |-> result, repeated |-> FALSE, first |-> << >>]

\* Tea(units)
TeaConstruct ==
    /\ shape_call = NoCall
    /\ \E units \in CountArgs :
          /\ layer' = TeaNew(units)
          /\ shape_call' = Called("Tea.__init__", units, FALSE, << >>)
    /\ UNCHANGED << call, steps, exported, pool, pool_call, init_call, sim >>

\* AdditivePooling(num_classes)
PoolConstruct ==
    /\ shape_call = NoCall
    /\ \E num_classes \in CountArgs :
          /\ pool' = PoolNew(num_classes)
          /\ shape_call' =
                Called("AdditivePooling.__init__", num_classes, FALSE, << >>)
    /\ UNCHANGED << layer, call, steps, exported, pool_call, init_call, sim >>

\* The caller has consumed the result, or seen the exception.
ShapeReturn ==
    /\ shape_call # NoCall
    /\ shape_call' = NoCall
    /\ UNCHANGED << layer, call, steps, exported, pool, pool_call, init_call,
                    sim >>

InitConstruct ==
    /\ layer \in {TeaNew(u) : u \in 1 .. MaxUnits}
    /\ call = NoCall
    /\ steps = 0
    /\ exported = NotExported
    /\ pool \in {PoolNew(c) : c \in 1 .. MaxClasses}
    /\ pool_call = NoCall
    /\ init_call = NoCall
    /\ shape_call = NoCall
    /\ sim = NoSim

NextConstruct ==
    \/ TeaConstruct
    \/ PoolConstruct
    \/ ShapeReturn

SpecConstruct == InitConstruct /\ [][NextConstruct]_vars

\* Tea.build on any shape tuple: it raises and leaves the layer as it was, or
\* creates the three variables.
TeaBuildCall ==
    /\ ~layer.built
    /\ shape_call = NoCall
    /\ \E input_shape \in ShapeArgs :
          IF BuildRaises(layer, input_shape)
          THEN /\ shape_call' = Called("Tea.build", input_shape, TRUE, << >>)
               /\ layer' = layer
          ELSE /\ shape_call' = Called("Tea.build", input_shape, FALSE, << >>)
               /\ layer' = build(layer, input_shape)
    /\ UNCHANGED << call, steps, exported, pool, pool_call, init_call, sim >>

\* Tea.compute_output_shape on any shape tuple.
TeaOutputShapeCall ==
    /\ shape_call = NoCall
    /\ \E input_shape \in ShapeArgs :
          shape_call' =
              IF OutputShapeRaises(layer, input_shape)
              THEN Called("Tea.compute_output_shape", input_shape, TRUE, << >>)
              ELSE Called("Tea.compute_output_shape", input_shape, FALSE,
                          compute_output_shape(layer, input_shape))
    /\ UNCHANGED << layer, call, steps, exported, pool, pool_call, init_call,
                    sim >>

\* Tea.compute_output_shape called once more with the same shape tuple; the
\* result of the call before is kept beside the new one.
TeaOutputShapeRepeat ==
    /\ shape_call # NoCall
    /\ shape_call.fn = "Tea.compute_output_shape"
    /\ ~shape_call.repeated
    /\ shape_call' =
          [(IF OutputShapeRaises(layer, shape_call.arg)
            THEN Called("Tea.compute_output_shape", shape_call.arg, TRUE,
                        << >>)
            ELSE Called("Tea.compute_output_shape", shape_call.arg, FALSE,
                        compute_output_shape(layer, shape_call.arg)))
           EXCEPT !.repeated = TRUE,
                  !.first = << shape_call.raised, shape_call.result >>]
    /\ UNCHANGED << layer, call, steps, exported, pool, pool_call, init_call,
                    sim >>

NextTeaShapes ==
    \/ TeaBuildCall
    \/ TeaOutputShapeCall
    \/ TeaOutputShapeRepeat
    \/ ShapeReturn

SpecTeaShapes == Init /\ [][NextTeaShapes]_vars

(* ----------------------- AdditivePooling shapes ------------------------ *)
\* A mutant of PoolBuildRaises: the divisibility assert is missing.
PoolBuildRaisesRankOnly(self, input_shape) ==
    \/ ~(Len(input_shape) >= 2)
    \/ Last(input_shape) = None

\* AdditivePooling.build raises: an assert fails, or None % num_classes.
PoolBuildRaises(self, input_shape) ==
    \/ ~(Len(input_shape) >= 2)
    \/ Last(input_shape) = None
    \/ ~(Last(input_shape) % self.num_classes = 0)

\* AdditivePooling.compute_output_shape raises: output_shape[-1] of ().
PoolOutputShapeRaises(self, input_shape) == input_shape = << >>

\* A mutant of DelSecond: the batch dimension is deleted (del output_shape[0]).
DelFirst(output_shape) == Tail(output_shape)

\* del output_shape[1]
DelSecond(output_shape) ==
    << output_shape[1] >> \o SubSeq(output_shape, 3, Len(output_shape))

\* AdditivePooling.compute_output_shape
AdditivePooling_compute_output_shape(self, input_shape) ==
    LET output_shape ==
            [input_shape EXCEPT ![Len(input_shape)] = self.num_classes]
    IN  IF Len(output_shape) >= 3 THEN DelSecond(output_shape)
        ELSE output_shape

\* AdditivePooling.build on any shape tuple: it raises and leaves num_inputs
\* as it was, or records the trailing dimension.
PoolBuildCall ==
    /\ pool.input_shape = << >>
    /\ shape_call = NoCall
    /\ pool_call = NoCall
    /\ \E input_shape \in ShapeArgs :
          IF PoolBuildRaises(pool, input_shape)
          THEN /\ shape_call' =
                     Called("AdditivePooling.build", input_shape, TRUE, << >>)
               /\ pool' = pool
          ELSE /\ shape_call' =
                     Called("AdditivePooling.build", input_shape, FALSE, << >>)
               /\ pool' = [pool EXCEPT !.num_inputs = Last(input_shape),
                                       !.input_shape = input_shape]
    /\ UNCHANGED << layer, call, steps, exported, pool_call, init_call, sim >>

\* AdditivePooling.compute_output_shape: on any shape tuple before the layer
\* is built, on the shape it was built for afterwards.
PoolOutputShapeCall ==
    /\ shape_call = NoCall
    /\ pool_call = NoCall
    /\ \E input_shape \in (IF pool.input_shape = << >> THEN ShapeArgs
                           ELSE {pool.input_shape}) :
          shape_call' =
              IF PoolOutputShapeRaises(pool, input_shape)
              THEN Called("AdditivePooling.compute_output_shape", input_shape,
                          TRUE, << >>)
              ELSE Called("AdditivePooling.compute_output_shape", input_shape,
                          FALSE,
                          AdditivePooling_compute_output_shape(pool,
                                                               input_shape))
    /\ UNCHANGED << layer, call, steps, exported, pool, pool_call, init_call,
                    sim >>

\* Forward of the built layer on a batch of the shape it was built for, of
\* any rank, every dimension after the batch being defined and positive.
PoolForwardRanked ==
    /\ pool.input_shape # << >>
    /\ shape_call = NoCall
    /\ pool_call = NoCall
    /\ \A k \in 2 .. Len(pool.input_shape) : pool.input_shape[k] >= 1
    /\ \E batch \in 1 .. MaxBatch :
          \E x \in {OnesTensor(<< batch >> \o Tail(pool.input_shape)),
                    RampTensor(<< batch >> \o Tail(pool.input_shape))} :
              pool_call' = [made |-> TRUE, x |-> x,
                            output |-> PoolingCall(pool, x)]
    /\ UNCHANGED << layer, call, steps, exported, pool, init_call,
                    shape_call, sim >>

NextPoolShapes ==
    \/ PoolBuildCall
    \/ PoolOutputShapeCall
    \/ PoolForwardRanked
    \/ PoolReturn
    \/ ShapeReturn

SpecPoolShapes == InitPool /\ [][NextPoolShapes]_vars

(* ------------------- packets for the simulator ------------------------ *)
\* image.reshape(784): the pixels of one flattened 28 x 28 image.
ImagePixels == 784
\* range(0, 4): the input cores.
NumCores == 4
\* image[176*i:176*i+256]: the first pixel of core i and the axons of a core.
CoreStride == 176
CoreAxons == 256

\* Values of one pixel of x_test (float32 in [0, 1]): 0, the two neighbours
\* of 0.5, 0.5 itself and 1.
PixelVals == {0, Half - 1, Half, Half + 1, One}

\* The test images converted: one value everywhere, or zeros with one pixel
\* set.
TestImages ==
    { [p \in 0 .. ImagePixels - 1 |-> v] : v \in PixelVals }
        \cup { [p \in 0 .. ImagePixels - 1 |-> IF p = at THEN v ELSE 0] :
                  at \in 0 .. ImagePixels - 1, v \in PixelVals \ {0} }

\* seq[start:stop] of Python on a sequence indexed from 0: stop is clamped to
\* the length.
Slice(seq, start, stop) ==
    LET n == Cardinality(DOMAIN seq)
        hi == Min(stop, n)
    IN  [k \in 0 .. (hi - start) - 1 |-> seq[start + k]]

\* A mutant of AboveHalf: pixel >= 0.5.
AtLeastHalf(pixel) == pixel >= Half

\* if pixel > 0.5
AboveHalf(pixel) == pixel > Half

\* The packet creation loop for one image: a packet (core i, axon pixel_num)
\* for every pixel of image[176*i:176*i+256] above 0.5.
CreatePacketsOf(image) ==
    UNION { { << i, pixel_num >> :
                pixel_num \in
                    { k \in DOMAIN Slice(image, CoreStride * i,
                                         CoreStride * i + CoreAxons) :
                        AboveHalf(Slice(image, CoreStride * i,
                                        CoreStride * i + CoreAxons)[k]) } } :
            i \in 0 .. NumCores - 1 }

\* The Lambda layers x[:,:256], x[:,176:432], x[:,352:608], x[:,528:] as
\* (start, stop) on the flattened image; an open stop is the image's length.
LambdaSlices ==
    << << 0, 256 >>, << 176, 432 >>, << 352, 608 >>, << 528, ImagePixels >> >>

\* What the Tea layer of core i is fed for one flattened image.
CoreInput(image, i) ==
    Slice(image, LambdaSlices[i + 1][1], LambdaSlices[i + 1][2])

\* The axons (core i, k) whose input is 1 after x = tf.round(x) in Tea.call.
SpikingAxonsOf(image) ==
    UNION { { << i, k >> :
                k \in { a \in DOMAIN CoreInput(image, i) :
                          Round(CoreInput(image, i)[a]) = 1 } } :
            i \in 0 .. NumCores - 1 }

\* One image of x_test is taken for conversion.
LoadImage ==
    /\ sim = NoSim
    /\ \E image \in TestImages :
          sim' = [made |-> TRUE, image |-> image,
                  packed |-> FALSE, packets |-> {},
                  fed |-> FALSE, spikes |-> {}]
    /\ UNCHANGED << layer, call, steps, exported, pool, pool_call, init_call,
                    shape_call >>

\* The packet creation cell on the image.
CreatePackets ==
    /\ sim # NoSim
    /\ ~sim.packed
    /\ sim' = [sim EXCEPT !.packed = TRUE,
                          !.packets = CreatePacketsOf(sim.image)]
    /\ UNCHANGED << layer, call, steps, exported, pool, pool_call, init_call,
                    shape_call >>

\* The network's forward pass on the image, up to the rounded inputs of the
\* four first-layer Tea instances.
FeedNetwork ==
    /\ sim # NoSim
    /\ ~sim.fed
    /\ sim' = [sim EXCEPT !.fed = TRUE,
                          !.spikes = SpikingAxonsOf(sim.image)]
    /\ UNCHANGED << layer, call, steps, exported, pool, pool_call, init_call,
                    shape_call >>

\* The next image.
NextImage ==
    /\ sim # NoSim
    /\ sim.packed
    /\ sim.fed
    /\ sim' = NoSim
    /\ UNCHANGED << layer, call, steps, exported, pool, pool_call, init_call,
                    shape_call >>

NextPackets ==
    \/ LoadImage
    \/ CreatePackets
    \/ FeedNetwork
    \/ NextImage

SpecPackets == InitInitializer /\ [][NextPackets]_vars

(* ------------------------- claims on the Tea layer --------------------- *)
RECURSIVE SumOver(_, _)
\* The sum of f over the finite set S of its arguments.
SumOver(f, S) ==
    IF S = {} THEN 0
    ELSE LET e == CHOOSE e \in S : TRUE IN f[e] + SumOver(f, S \ {e})

Axons == DOMAIN layer.connections
Neurons == 0 .. layer.units - 1
Inference == call.made /\ ~call.training
Training == call.made /\ call.training

\* C3: the connections Forward uses (round, then clip to [0,1]) are all 0 or
\* 1; an entry is 1 exactly when the rounded stored parameter is >= 1 and 0
\* exactly when it is <= 0.
C3_EffectiveConnectionBinary ==
    call.made =>
        \A i \in Axons, j \in Neurons :
            LET e == call.connections[i][j]
                r == Round(layer.connections[i][j])
            IN  /\ e \in {0, 1}
                /\ (e = 1) <=> (r >= 1)
                /\ (e = 0) <=> (r <= 0)

\* C3 witness: a Forward whose stored connections round above 1 (clipped
\* down to 1) and below 0 (clipped up to 0).
C3_Witness ==
    /\ call.made
    /\ \E i \in Axons, j \in Neurons :
          Round(layer.connections[i][j]) >= 2 /\ call.connections[i][j] = 1
    /\ \E i \in Axons, j \in Neurons :
          Round(layer.connections[i][j]) <= -1 /\ call.connections[i][j] = 0

\* C4: in the test phase every element of the output of Forward is exactly
\* 0.0 or 1.0.
C4_InferenceOutputBinary ==
    Inference => \A j \in Neurons : call.output[j] \in {0, One}

\* C4 witness: a test-phase Forward in which one neuron spikes and another
\* does not.
C4_Witness ==
    /\ Inference
    /\ \E j \in Neurons : call.output[j] = One
    /\ \E j \in Neurons : call.output[j] = 0

\* C5: in the test phase a neuron whose potential is exactly 0 outputs 1, and
\* a neuron outputs 0 only when its potential is strictly negative.
C5_ThresholdInclusive ==
    Inference =>
        \A j \in Neurons :
            /\ call.potential[j] = 0 => call.output[j] = One
            /\ call.output[j] = 0 => call.potential[j] < 0

\* C5 witness: a test-phase Forward in which an excitatory and an inhibitory
\* spike cancel to potential 0 and the neuron spikes.
C5_Witness ==
    /\ Inference
    /\ \E j \in Neurons :
          /\ call.potential[j] = 0
          /\ call.output[j] = One
          /\ \E i \in Axons : Round(call.x[i]) # 0 /\ call.connections[i][j] = 1

\* C6: on an all-zeros input, in the test phase, every neuron whose stored
\* leak rounds to 0 outputs 1, whatever the connections are.
C6_ZeroInputSpikes ==
    (Inference /\ \A i \in Axons : call.x[i] = 0) =>
        \A j \in Neurons :
            Round(layer.biases[j]) = 0 => call.output[j] = One

\* C6 witness: a test-phase Forward on zeros where a neuron with a nonzero
\* stored leak that rounds to 0, and with a connected axon, spikes.
C6_Witness ==
    /\ Inference
    /\ \A i \in Axons : call.x[i] = 0
    /\ \E j \in Neurons :
          /\ layer.biases[j] # 0
          /\ Round(layer.biases[j]) = 0
          /\ \E i \in Axons : call.connections[i][j] = 1
          /\ call.output[j] = One

\* Potentials up to this magnitude keep the float32 sigmoid away from 0 and 1.
SaturationFree == 16

\* C7 as stated: in the training phase every element of the output is
\* strictly greater than 0 and strictly less than 1.
C7_TrainingOutputOpen ==
    Training => \A j \in Neurons : 0 < call.output[j] /\ call.output[j] < One

\* C7 amended: in the training phase every element of the output is in the
\* closed interval [0, 1], and it is strictly inside for every potential
\* between -16 and 16.
C7_TrainingOutputClosed ==
    Training =>
        \A j \in Neurons :
            /\ 0 <= call.output[j] /\ call.output[j] <= One
            /\ (-SaturationFree <= call.potential[j]
                    /\ call.potential[j] <= SaturationFree)
                => (0 < call.output[j] /\ call.output[j] < One)

\* C7 witness: a training-phase Forward in which one neuron's sigmoid is
\* saturated at exactly 1.0 and another's is strictly inside (0, 1).
C7_Witness ==
    /\ Training
    /\ \E j \in Neurons : call.potential[j] >= 18 /\ call.output[j] = One
    /\ \E j \in Neurons : 0 < call.output[j] /\ call.output[j] < One

C10_EffectiveIsAboveHalf ==
    call.made =>
        \A i \in Axons, j \in Neurons :
            call.connections[i][j] =
                IF layer.connections[i][j] > Half THEN 1 ELSE 0

\* C10 witness: a Forward whose stored connections hold the tie 0.5 (used as
\* 0) and a value above 1.5 (used as 1).
C10_Witness ==
    /\ call.made
    /\ \E i \in Axons, j \in Neurons :
          layer.connections[i][j] = Half /\ call.connections[i][j] = 0
    /\ \E i \in Axons, j \in Neurons :
          layer.connections[i][j] > 3 * Half /\ call.connections[i][j] = 1

\* C16: once the layer is built its weights are the alternating-sign matrix
\* of their shape in every state, no step changes them, and a Forward (in
\* either phase) leaves weights, connections and biases as stored: what it
\* rounds and clips is never assigned to the variables.
C16_ForwardLeavesParameters ==
    /\ [](layer.built =>
            layer.static_weights =
                tea_weight_initializer(
                    << Cardinality(DOMAIN layer.connections), layer.units >>))
    /\ [][layer.built => layer'.static_weights = layer.static_weights]_vars
    /\ [][(~call.made /\ call'.made) => layer' = layer]_vars

\* C16 witness: a Forward after two optimizer updates, the stored connection
\* and the stored bias still fractional and different from the values the
\* Forward used.
C16_Witness ==
    /\ call.made
    /\ steps = 2
    /\ \E i \in Axons, j \in Neurons :
          /\ layer.connections[i][j] \in ConnVals
          /\ layer.connections[i][j] % One # 0
          /\ layer.connections[i][j] # One * call.connections[i][j]
    /\ \E j \in Neurons :
          /\ layer.biases[j] % One # 0
          /\ layer.biases[j] # One * Round(layer.biases[j])

\* The sum of round(x[i]) over the axons of the given parity connected to j.
Drive(j, parity) ==
    LET S == {i \in Axons : i % 2 = parity /\ call.connections[i][j] = 1}
    IN  SumOver([i \in S |-> Round(call.x[i])], S)

\* C17: the potential of neuron j in a Forward is the sum of round(x[i]) over
\* the even axons i whose effective connection to j is 1, minus the same sum
\* over the odd axons, plus round(bias[j]); axons whose effective connection
\* is 0 contribute nothing; the other phase computes the same potential.
C17_PotentialFormula ==
    call.made =>
        /\ call.connections = ConstrainConnections(layer.connections)
        /\ \A j \in Neurons :
              call.potential[j] =
                  Drive(j, 0) - Drive(j, 1) + Round(layer.biases[j])
        /\ call.potential = TeaCall(layer, call.x, ~call.training).potential

\* C17 witness: a training-phase Forward in which a neuron is driven by a
\* spike on a connected even axon and a spike on a connected odd axon and has
\* a nonzero rounded bias, and a spike arrives on an axon that is not
\* connected to some neuron.
C17_Witness ==
    /\ Training
    /\ \E j \in Neurons :
          /\ Drive(j, 0) = 1
          /\ Drive(j, 1) = 1
          /\ Round(layer.biases[j]) # 0
          /\ call.potential[j] = Round(layer.biases[j])
    /\ \E i \in Axons, j \in Neurons :
          Round(call.x[i]) = 1 /\ call.connections[i][j] = 0

\* C18 as stated: the quantized values a following Tea layer reads from this
\* layer's output are the same in the training phase and in the test phase,
\* for every potential, 0 included.
C18_QuantizedSameInBothModes ==
    call.made =>
        NextLayerInput(call.output)
            = NextLayerInput(TeaCall(layer, call.x, ~call.training).output)

\* What does hold beside C18: the two phases give the following layer the
\* same value for every neuron whose potential is not 0, and at potential 0
\* the training phase gives 0 (round(0.5)) where the test phase gives 1.
QuantizedSameAwayFromZero ==
    call.made =>
        \A j \in Neurons :
            LET here == NextLayerInput(call.output)[j]
                other == NextLayerInput(
                             TeaCall(layer, call.x, ~call.training).output)[j]
            IN  /\ call.potential[j] # 0 => here = other
                /\ call.potential[j] = 0 =>
                      here = (IF call.training THEN 0 ELSE 1)

(* ----------------------- claims on AdditivePooling --------------------- *)
PoolN == pool.num_inputs
PoolC == pool.num_classes
\* The neurons of class c: the indices i with i mod num_classes = c.
ClassOf(c) == {i \in 0 .. PoolN - 1 : i % PoolC = c}
\* input[b][i] of a (batch, N) input and input[b][t][i] of a (batch, ticks,
\* N) input, from the row-major elements.
In2(x, b, i) == x.data[b * PoolN + i + 1]
In3(x, b, t, i) == x.data[(b * x.shape[2] + t) * PoolN + i + 1]
Out2(y, b, c) == y.data[b * PoolC + c + 1]

\* C1: on a (batch, N) input the result is (batch, num_classes) and entry
\* [b][c] is the sum of input[b][i] over the neurons i with i mod num_classes
\* = c; an all-ones input gives N / num_classes everywhere.
C1_ClassSums ==
    (pool_call.made /\ Len(pool_call.x.shape) = 2) =>
        LET x == pool_call.x
            y == pool_call.output
            batch == x.shape[1]
        IN  /\ y.shape = << batch, PoolC >>
            /\ Len(y.data) = batch * PoolC
            /\ \A b \in 0 .. batch - 1, c \in 0 .. PoolC - 1 :
                  /\ Out2(y, b, c) =
                        SumOver([i \in ClassOf(c) |-> In2(x, b, i)], ClassOf(c))
                  /\ x = OnesTensor(x.shape) =>
                        /\ Cardinality(ClassOf(c)) * PoolC = PoolN
                        /\ Out2(y, b, c) * PoolC = PoolN

\* C1 witness: an all-ones (batch, N) input with several classes and several
\* neurons per class.
C1_Witness ==
    /\ pool_call.made
    /\ Len(pool_call.x.shape) = 2
    /\ PoolC >= 2
    /\ PoolN >= 2 * PoolC
    /\ pool_call.x = OnesTensor(pool_call.x.shape)
    /\ \A e \in DOMAIN pool_call.output.data :
          pool_call.output.data[e] * PoolC = PoolN

\* C2: on a (batch, ticks, N) input the result is (batch, num_classes) and
\* entry [b][c] is the sum, over every tick t and every neuron i with i mod
\* num_classes = c, of input[b][t][i]: rows of the batch are never mixed.
C2_TickAndClassSums ==
    (pool_call.made /\ Len(pool_call.x.shape) = 3) =>
        LET x == pool_call.x
            y == pool_call.output
            batch == x.shape[1]
            ticks == x.shape[2]
        IN  /\ y.shape = << batch, PoolC >>
            /\ Len(y.data) = batch * PoolC
            /\ \A b \in 0 .. batch - 1, c \in 0 .. PoolC - 1 :
                  Out2(y, b, c) =
                      SumOver([t \in 0 .. ticks - 1 |->
                                  SumOver([i \in ClassOf(c) |->
                                              In3(x, b, t, i)], ClassOf(c))],
                              0 .. ticks - 1)

\* C2 witness: two samples, several ticks and classes; one sample spikes in
\* two ticks on neurons of one class, the other sample is silent.
C2_Witness ==
    /\ pool_call.made
    /\ Len(pool_call.x.shape) = 3
    /\ pool_call.x.shape[1] >= 2
    /\ pool_call.x.shape[2] >= 2
    /\ PoolC >= 2
    /\ PoolN >= 2 * PoolC
    /\ In3(pool_call.x, 1, 0, 1) = 1
    /\ In3(pool_call.x, 1, 1, 1 + PoolC) = 1
    /\ Out2(pool_call.output, 1, 1) = 2
    /\ \A c \in 0 .. PoolC - 1 : Out2(pool_call.output, 0, c) = 0

(* -------------------- claims on tea_weight_initializer ----------------- *)
\* C8: for a shape (a, b) the initializer returns an a-by-b matrix whose row
\* i is all +1 when i is even and all -1 when i is odd.
C8_AlternatingRows ==
    init_call.made =>
        LET a == init_call.shape[1]
            b == init_call.shape[2]
            w == init_call.result
        IN  /\ DOMAIN w = 0 .. a - 1
            /\ \A i \in 0 .. a - 1 :
                  /\ DOMAIN w[i] = 0 .. b - 1
                  /\ \A j \in 0 .. b - 1 :
                        w[i][j] = IF i % 2 = 0 THEN 1 ELSE -1

\* C8 witness: the notebook's example, a core with 10 axons and 5 neurons.
C8_Witness ==
    /\ init_call.made
    /\ init_call.shape = << 10, 5 >>
    /\ \A j \in 0 .. 4 :
          /\ init_call.result[0][j] = 1
          /\ init_call.result[1][j] = -1
          /\ init_call.result[8][j] = 1
          /\ init_call.result[9][j] = -1

(* ------------------ claims on construction and shapes ------------------ *)
TeaShapeCall ==
    shape_call.made /\ shape_call.fn = "Tea.compute_output_shape"
TeaBuilt == shape_call.made /\ shape_call.fn = "Tea.build"
Constructed ==
    shape_call.made
        /\ shape_call.fn \in {"Tea.__init__", "AdditivePooling.__init__"}

\* C11 as stated: for every input shape with at least 2 dimensions and a
\* defined (not None) trailing dimension, Tea's compute_output_shape returns
\* the input shape with only its last element replaced by units.
C11_OutputShapeForDefinedTrailing ==
    (TeaShapeCall /\ Len(shape_call.arg) >= 2
        /\ Last(shape_call.arg) # None) =>
        /\ ~shape_call.raised
        /\ Len(shape_call.result) = Len(shape_call.arg)
        /\ Last(shape_call.result) = layer.units
        /\ \A k \in 1 .. Len(shape_call.arg) - 1 :
              shape_call.result[k] = shape_call.arg[k]

\* C11 amended: for every input shape with at least 2 dimensions and a
\* trailing dimension that is neither None nor 0, Tea's compute_output_shape
\* returns the input shape with only its last element replaced by units (same
\* rank, leading dimensions unchanged); a trailing dimension of 0 is refused
\* like None; a repeated call with the same input shape gives the same
\* outcome, and no call changes the layer.
C11_OutputShapeReplacesLast ==
    /\ [](TeaShapeCall =>
            /\ (Len(shape_call.arg) >= 2 /\ Last(shape_call.arg) \notin {None, 0})
                  => /\ ~shape_call.raised
                     /\ Len(shape_call.result) = Len(shape_call.arg)
                     /\ Last(shape_call.result) = layer.units
                     /\ \A k \in 1 .. Len(shape_call.arg) - 1 :
                           shape_call.result[k] = shape_call.arg[k]
            /\ (Len(shape_call.arg) >= 2 /\ Last(shape_call.arg) = 0)
                  => shape_call.raised
            /\ shape_call.repeated
                  => shape_call.first
                        = << shape_call.raised, shape_call.result >>)
    /\ [][(shape_call'.made /\ shape_call'.fn = "Tea.compute_output_shape")
            => layer' = layer]_vars

\* C11 witness: a repeated call on a built layer with a rank-3 shape whose
\* leading dimensions differ from units, answered twice with the same shape.
C11_Witness ==
    /\ TeaShapeCall
    /\ layer.built
    /\ shape_call.repeated
    /\ ~shape_call.raised
    /\ Len(shape_call.arg) = 3
    /\ shape_call.arg[2] # layer.units
    /\ Last(shape_call.arg) # layer.units
    /\ shape_call.result
          = << shape_call.arg[1], shape_call.arg[2], layer.units >>

\* C14: Tea.build raises for every input shape with fewer than 2 dimensions
\* or with a None trailing dimension, and then the layer has no variable; a
\* build that returns was given at least 2 dimensions and a defined trailing
\* dimension, and has created the weights and the connections with shape
\* (input_shape[-1], units) and the biases with shape (units,).
C14_BuildRefusesUnderspecified ==
    TeaBuilt =>
        /\ (Len(shape_call.arg) < 2 \/ Last(shape_call.arg) = None)
              => /\ shape_call.raised
                 /\ ~layer.built
                 /\ layer.static_weights = << >>
                 /\ layer.connections = << >>
                 /\ layer.biases = << >>
        /\ ~shape_call.raised
              => /\ Len(shape_call.arg) >= 2
                 /\ Last(shape_call.arg) # None
                 /\ layer.built
                 /\ layer.static_weights
                       = tea_weight_initializer(
                             << Last(shape_call.arg), layer.units >>)
                 /\ DOMAIN layer.connections = 0 .. Last(shape_call.arg) - 1
                 /\ \A i \in DOMAIN layer.connections :
                       DOMAIN layer.connections[i] = 0 .. layer.units - 1
                 /\ DOMAIN layer.biases = 0 .. layer.units - 1

\* C14 witness: a build refused for a shape of 2 dimensions whose trailing
\* dimension is None, the layer left without variables.
C14_Witness ==
    /\ TeaBuilt
    /\ shape_call.raised
    /\ Len(shape_call.arg) = 2
    /\ Last(shape_call.arg) = None
    /\ ~layer.built

\* C15 as stated: a constructor given a count that is not positive raises,
\* and no Tea layer and no AdditivePooling layer holds such a count.
C15_ConstructRejectsBadCount ==
    /\ Constructed => (shape_call.arg < 1 => shape_call.raised)
    /\ layer.units >= 1
    /\ pool.num_classes >= 1


PoolShapeCall ==
    shape_call.made /\ shape_call.fn = "AdditivePooling.compute_output_shape"
PoolBuilt == shape_call.made /\ shape_call.fn = "AdditivePooling.build"

\* C12: AdditivePooling's compute_output_shape maps (batch, N) to (batch,
\* num_classes) and (batch, ticks, N) to (batch, num_classes): the trailing
\* dimension becomes num_classes and the tick dimension of a rank-3 shape is
\* removed.
C12_PoolOutputShape ==
    PoolShapeCall =>
        LET s == shape_call.arg
        IN  /\ Len(s) = 2 =>
                  (~shape_call.raised
                      /\ shape_call.result = << s[1], pool.num_classes >>)
            /\ Len(s) = 3 =>
                  (~shape_call.raised
                      /\ shape_call.result = << s[1], pool.num_classes >>)

\* C12 witness: the shape (None, ticks, N) of a built layer, with ticks and N
\* different from num_classes, answered with (None, num_classes).
C12_Witness ==
    /\ PoolShapeCall
    /\ pool.input_shape # << >>
    /\ Len(shape_call.arg) = 3
    /\ shape_call.arg[1] = None
    /\ shape_call.arg[2] \notin {None, pool.num_classes}
    /\ shape_call.arg[3] # pool.num_classes
    /\ shape_call.result = << None, pool.num_classes >>

\* C13 as stated: AdditivePooling.build raises for every input shape whose
\* trailing dimension is not divisible by num_classes, leaving num_inputs
\* None, and returns with num_inputs set to the trailing dimension for every
\* input shape whose trailing dimension is divisible.
C13_BuildIffDivisible ==
    (PoolBuilt /\ shape_call.arg # << >>) =>
        LET n == Last(shape_call.arg)
            divisible == n # None /\ n % pool.num_classes = 0
        IN  /\ ~divisible => (shape_call.raised /\ pool.num_inputs = None)
            /\ divisible => (~shape_call.raised /\ pool.num_inputs = n)

\* C13 amended: AdditivePooling.build raises for every input shape whose
\* trailing dimension is not divisible by num_classes (None included) and for
\* every input shape with fewer than 2 dimensions, leaving num_inputs None;
\* it returns with num_inputs set to the trailing dimension for every input
\* shape with at least 2 dimensions whose trailing dimension is divisible.
C13_BuildIffDivisibleRank2 ==
    PoolBuilt =>
        LET s == shape_call.arg
            divisible ==
                s # << >> /\ Last(s) # None /\ Last(s) % pool.num_classes = 0
        IN  /\ (~divisible \/ Len(s) < 2)
                  => (shape_call.raised /\ pool.num_inputs = None)
            /\ (divisible /\ Len(s) >= 2)
                  => (~shape_call.raised /\ pool.num_inputs = Last(s))

\* C13 witness: a build refused for a shape of 2 dimensions whose trailing
\* dimension is defined, positive and not a multiple of num_classes.
C13_Witness ==
    /\ PoolBuilt
    /\ shape_call.raised
    /\ Len(shape_call.arg) = 2
    /\ Last(shape_call.arg) >= 1
    /\ Last(shape_call.arg) % pool.num_classes # 0
    /\ pool.num_inputs = None

\* C19 as stated: for every input of rank >= 2 of a built AdditivePooling
\* layer, the shape of the tensor Forward returns is the shape that
\* compute_output_shape gives for the input's shape.
C19_ForwardShapeIsOutputShape ==
    pool_call.made =>
        pool_call.output.shape
            = AdditivePooling_compute_output_shape(pool, pool_call.x.shape)


(* -------------------------- claims on the packets ---------------------- *)
\* C20: for an image with pixels in [0, 1] and every input core i in 0..3, a
\* packet (core i, axon k) is created exactly when element k of the slice fed
\* to the i-th first-layer Tea instance rounds to 1; each core has exactly
\* 256 axons, on both sides; every one of the 784 pixels feeds a core.
C20_PacketsAreSpikingAxons ==
    (sim.made /\ sim.packed /\ sim.fed) =>
        /\ \A p \in DOMAIN sim.image : 0 <= sim.image[p] /\ sim.image[p] <= One
        /\ \A i \in 0 .. NumCores - 1, k \in 0 .. CoreAxons - 1 :
              (<< i, k >> \in sim.packets)
                  <=> (Round(CoreInput(sim.image, i)[k]) = 1)
        /\ sim.packets \subseteq (0 .. NumCores - 1) \X (0 .. CoreAxons - 1)
        /\ sim.packets = sim.spikes
        /\ \A i \in 0 .. NumCores - 1 :
              /\ DOMAIN CoreInput(sim.image, i) = 0 .. CoreAxons - 1
              /\ DOMAIN Slice(sim.image, CoreStride * i,
                              CoreStride * i + CoreAxons)
                    = 0 .. CoreAxons - 1
        /\ DOMAIN sim.image = 0 .. ImagePixels - 1
        /\ \A p \in DOMAIN sim.image :
              \E i \in 0 .. NumCores - 1 :
                  /\ LambdaSlices[i + 1][1] <= p
                  /\ p < LambdaSlices[i + 1][2]

\* C20 witness: an image whose only bright pixel lies where the second and
\* the third core overlap: exactly two packets, on different axon numbers,
\* and they are the two axons that see the spike.
C20_Witness ==
    /\ sim.made
    /\ sim.packed
    /\ sim.fed
    /\ sim.image[400] = Half + 1
    /\ sim.packets = { << 1, 400 - CoreStride >>, << 2, 400 - 2 * CoreStride >> }
    /\ sim.spikes = sim.packets

=============================================================================
